---- MODULE Spec2Model ----
(***************************************************************************)
(* OmniVid-Lite: the Remotion scene-DSL engine (remotion_engine/src).      *)
(* A DSL document is rendered frame by frame by the "Main" composition:    *)
(* MainVideo -> MotionEngine -> SceneRenderer (a Remotion <Sequence>)      *)
(* -> LayerRenderer -> AnimatedText / AnimatedImage / ParticleEffect.      *)
(*                                                                         *)
(* JavaScript numbers that are not integers (0.7, interpolated values) are *)
(* exact rationals [n, d] in lowest terms, so that "exactly the target     *)
(* value" is plain equality.  An optional JSON field is None (absent) or   *)
(* Some(v).  Remotion's interpolate, Sequence and spring are modelled by   *)
(* what the library does at the call sites of this repository.             *)
(***************************************************************************)
EXTENDS Integers, Sequences, FiniteSets, TLC

\* the render script
VARIABLES dsl, frame, painted, pc

\* the frontend: ApiService, App, JobStatus, PromptForm, VideoDownload, the
\* requests in flight, the backend's jobs, and what the last handler did
VARIABLES apiKey, appState, currentJob, completedJob, error,
          status, isPolling, pollCount, isSubmitting, formError,
          isDownloading, downloadError, progressPercentage, net, backend,
          last, seen

engineVars == <<dsl, frame, painted, pc>>
appVars == <<apiKey, appState, currentJob, completedJob, error,
             status, isPolling, pollCount, isSubmitting, formError,
             isDownloading, downloadError, progressPercentage, net, backend,
             last, seen>>
vars == <<engineVars, appVars>>

----------------------------------------------------------------------------
(* Optional values and exact rationals *)

None == <<>>
Some(v) == <<v>>
IsSome(o) == o # None
Get(o) == o[1]
\* JS `o ?? d`
OrElse(o, d) == IF o = None THEN d ELSE o[1]

Abs(x) == IF x < 0 THEN -x ELSE x

RECURSIVE GCD(_, _)
GCD(a, b) == IF b = 0 THEN a ELSE GCD(b, a % b)

\* the rational n/d (d # 0) in lowest terms with a positive denominator
Rat(n, d) ==
  LET g == GCD(Abs(n), Abs(d))
      s == IF d < 0 THEN -1 ELSE 1
  IN [n |-> (s * n) \div g, d |-> (s * d) \div g]

RInt(i) == [n |-> i, d |-> 1]
RAdd(a, b) == Rat(a.n * b.d + b.n * a.d, a.d * b.d)
RSub(a, b) == Rat(a.n * b.d - b.n * a.d, a.d * b.d)
RMul(a, b) == Rat(a.n * b.n, a.d * b.d)
RLe(a, b) == a.n * b.d <= b.n * a.d
RMin(a, b) == IF RLe(a, b) THEN a ELSE b
RMax(a, b) == IF RLe(a, b) THEN b ELSE a
RBetween(v, a, b) == RLe(RMin(a, b), v) /\ RLe(v, RMax(a, b))

\* the result of a computation that may throw
Ok(v) == [ok |-> TRUE, v |-> v]
Throw == [ok |-> FALSE, v |-> RInt(0)]

----------------------------------------------------------------------------
(* remotion: interpolate, as called with a two-point range *)

\* interpolate(input, [inMin, inMax], [outMin, outMax],
\*             {extrapolateLeft: left, extrapolateRight: right});
\* an option that is not given is "extend".  A range that is not strictly
\* increasing throws.
interpolate(input, inMin, inMax, outMin, outMax, left, right) ==
  IF ~(inMax > inMin) THEN Throw
  ELSE LET lo == IF input < inMin /\ left = "clamp" THEN inMin ELSE input
           x == IF lo > inMax /\ right = "clamp" THEN inMax ELSE lo
       IN IF outMin = outMax THEN Ok(outMin)
          ELSE Ok(RAdd(RMul(Rat(x - inMin, inMax - inMin), RSub(outMax, outMin)),
                       outMin))

----------------------------------------------------------------------------
(* remotion: spring *)

\* spring({frame, fps: 30, config: {damping: 10, stiffness: 120}}) from 0 to
\* 1, in thousandths rounded to the nearest, for frame = 0, 1, 2, ...; the
\* curve overshoots 1 (frames 7..15), swings back and stays within half a
\* thousandth of 1 from frame 44 on.
SpringTable ==
  <<0, 59, 207, 402, 609, 801, 961, 1080, 1156, 1193, 1198, 1180, 1146, 1106,
    1065, 1028, 999, 978, 966, 960, 961, 966, 973, 982, 990, 996, 1002, 1005,
    1007, 1008, 1007, 1006, 1005, 1003, 1002, 1000, 999, 999, 998, 998, 999,
    999, 999, 999>>

\* spring() clamps a negative frame to 0 and reads nothing but frame, fps
\* and config
spring(f) ==
  LET fc == IF f < 0 THEN 0 ELSE f
  IN IF fc + 1 <= Len(SpringTable) THEN Rat(SpringTable[fc + 1], 1000)
     ELSE RInt(1)

----------------------------------------------------------------------------
(* Layers: components/AnimatedText.tsx, components/AnimatedImage.tsx,      *)
(* effects/Particles.tsx, LayerRenderer.tsx                                *)

\* a layer of the document: id, type, style.scale and animation.in, the
\* last two optional; animation.in is [type, easing, startFrame, duration]
\* with startFrame and duration optional.  The payload is optional too:
\* content of a text layer, src (layer.url || layer.src) of an image layer,
\* density and speed of a particles layer.  Layer(...) is a text or image
\* layer with its payload and a particles layer without density and speed.
Layer(id, type, scale, in) ==
  [id |-> id, type |-> type, scale |-> scale, in |-> in,
   content |-> Some("Hello"), src |-> Some("photo.png"),
   preset |-> None, density |-> None, speed |-> None, position |-> None]

\* layer.position: the keyword "center" or explicit coordinates {x, y}
Center == [keyword |-> "center", x |-> 0, y |-> 0]
At(x, y) == [keyword |-> "", x |-> x, y |-> y]

\* the CSS lengths "50%" and a number of pixels
Percent(n) == [unit |-> "%", n |-> n]
Pixels(n) == [unit |-> "px", n |-> n]

\* left, top and whether the transform carries translate(-50%,-50%)
Place(left, top, translateCenter) ==
  [left |-> left, top |-> top, translateCenter |-> translateCenter]

InSpec(type, easing, startFrame, duration) ==
  [type |-> type, easing |-> easing, startFrame |-> startFrame, duration |-> duration]

\* what a layer component hands to the compositing backend
Element(id, type, scale, opacity, translateY) ==
  [id |-> id, type |-> type, scale |-> scale, opacity |-> opacity,
   translateY |-> translateY, content |-> "", dots |-> <<>>, place |-> None]

DefaultAnimDuration == 20

\* inSpec.startFrame ?? 0
AnimStartFrame(inSpec) == OrElse(inSpec.startFrame, 0)
\* (inSpec.startFrame ?? 0) + (inSpec.duration ?? 20)
AnimEndFrame(inSpec) ==
  AnimStartFrame(inSpec) + OrElse(inSpec.duration, DefaultAnimDuration)

\* inSpec?.type?.includes("fade") || inSpec?.type === "fade-up"
IsFade(in) == IsSome(in) /\ Get(in).type \in {"fade", "fade-up"}

\* AnimatedText: let scale = 1; if (inSpec?.type === "zoom-in") { ... }
AnimatedTextScale(layer, f) ==
  IF IsSome(layer.in) /\ Get(layer.in).type = "zoom-in"
  THEN IF Get(layer.in).easing = "spring"
       THEN Ok(RMul(spring(f), RInt(OrElse(layer.scale, 1))))
       ELSE interpolate(f, AnimStartFrame(Get(layer.in)), AnimEndFrame(Get(layer.in)),
                        Rat(7, 10), RInt(1), "extend", "clamp")
  ELSE Ok(RInt(1))

\* the fade without extrapolateRight: "clamp"
AnimatedTextOpacityUnclamped(layer, f) ==
  IF IsFade(layer.in)
  THEN interpolate(f, AnimStartFrame(Get(layer.in)), AnimEndFrame(Get(layer.in)),
                   RInt(0), RInt(1), "extend", "extend")
  ELSE Ok(RInt(1))

\* AnimatedText: let opacity = 1; if (fade) { ... }
AnimatedTextOpacity(layer, f) ==
  IF IsFade(layer.in)
  THEN interpolate(f, AnimStartFrame(Get(layer.in)), AnimEndFrame(Get(layer.in)),
                   RInt(0), RInt(1), "extend", "clamp")
  ELSE Ok(RInt(1))

\* AnimatedText: position = layer.position || "center"; left, top,
\* translateCenter
AnimatedTextPlace(layer) ==
  LET position == OrElse(layer.position, Center)
  IN IF position.keyword = "center"
     THEN Place(Percent(50), Percent(50), TRUE)
     ELSE Place(Pixels(position.x), Pixels(position.y), FALSE)

\* one element, or the exception of the first computation that throws
AnimatedText(layer, f) ==
  LET scale == AnimatedTextScale(layer, f)
      opacity == AnimatedTextOpacity(layer, f)
  IN IF scale.ok /\ opacity.ok
     THEN [ok |-> TRUE,
           v |-> <<[Element(layer.id, "text", scale.v, opacity.v, RInt(0))
                      EXCEPT !.content = OrElse(layer.content, ""),
                             !.place = Some(AnimatedTextPlace(layer))]>>]
     ELSE [ok |-> FALSE, v |-> <<>>]

\* AnimatedImage: the slide-up offset of the outer box; no offset otherwise
AnimatedImageTranslateY(layer, f) ==
  IF IsSome(layer.in) /\ Get(layer.in).type = "slide-up"
  THEN interpolate(f, AnimStartFrame(Get(layer.in)), AnimEndFrame(Get(layer.in)),
                   RInt(50), RInt(0), "extend", "clamp")
  ELSE Ok(RInt(0))

\* AnimatedImage: let scale = layer.style?.scale ?? 1
AnimatedImageScale(layer) == RInt(OrElse(layer.scale, 1))

\* remotion: <Img src={layer.url || layer.src}/> throws 'No "src" prop was
\* passed to <Img>.' when src is undefined or empty (remotion 4)
Img(src) ==
  IF src = None \/ Get(src) = "" THEN [ok |-> FALSE, v |-> ""]
  ELSE [ok |-> TRUE, v |-> Get(src)]

\* AnimatedImage: left, top from typeof layer.position === "object", else
\* "center", else layer.position ?? 0; translateCenter only for "center"
AnimatedImagePlace(layer) ==
  IF layer.position = None THEN Place(Pixels(0), Pixels(0), FALSE)
  ELSE IF Get(layer.position).keyword = "center"
       THEN Place(Percent(50), Percent(50), TRUE)
       ELSE Place(Pixels(Get(layer.position).x), Pixels(Get(layer.position).y), FALSE)

AnimatedImage(layer, f) ==
  LET prog == AnimatedImageTranslateY(layer, f)
      img == Img(layer.src)
  IN IF prog.ok /\ img.ok
     THEN [ok |-> TRUE,
           v |-> <<[Element(layer.id, "image", AnimatedImageScale(layer), RInt(1), prog.v)
                      EXCEPT !.content = img.v,
                             !.place = Some(AnimatedImagePlace(layer))]>>]
     ELSE [ok |-> FALSE, v |-> <<>>]

LowCount == 20
MediumCount == 40
HighCount == 80

\* an absent density taken as "low"
ParticleCountLowDefault(layer) ==
  LET density == IF layer.density = None \/ Get(layer.density) = "" THEN "low"
                 ELSE Get(layer.density)
  IN IF density = "low" THEN LowCount
     ELSE IF density = "high" THEN HighCount
     ELSE MediumCount

\* LayerRenderer: density={layer.density || "medium"};
\* ParticleEffect: count = density === "low" ? 20 : density === "high" ? 80 : 40
ParticleCount(layer) ==
  LET density == IF layer.density = None \/ Get(layer.density) = "" THEN "medium"
                 ELSE Get(layer.density)
  IN IF density = "low" THEN LowCount
     ELSE IF density = "high" THEN HighCount
     ELSE MediumCount

\* ParticleEffect: dot i (from 0) at x = (i * 47) % 100,
\* y = ((i * 73) + (frame % 100)) % 100, of size (i % 6) + 1
ParticleDot(i, f) ==
  [x |-> (i * 47) % 100, y |-> ((i * 73) + (f % 100)) % 100, size |-> (i % 6) + 1]

\* dots that fall at the layer's speed
ParticleEffectSpeed(layer, f) ==
  [Element(layer.id, "particles", RInt(1), RInt(1), RInt(0))
     EXCEPT !.dots = [k \in 1..ParticleCount(layer) |->
                        ParticleDot(k - 1, f * OrElse(layer.speed, 1))]]

\* ParticleEffect at frame f: the dots; preset and speed are not read
ParticleEffect(layer, f) ==
  [Element(layer.id, "particles", RInt(1), RInt(1), RInt(0))
     EXCEPT !.dots = [k \in 1..ParticleCount(layer) |-> ParticleDot(k - 1, f)]]

\* the shape placeholder <div/> carries no state
ShapePlaceholder(layer) == Element(layer.id, "shape", RInt(1), RInt(1), RInt(0))

\* a switch whose last case catches every other type
LayerRendererNoDefault(layer, f) ==
  CASE layer.type = "text" -> AnimatedText(layer, f)
    [] layer.type = "image" -> AnimatedImage(layer, f)
    [] layer.type = "particles" -> [ok |-> TRUE, v |-> <<ParticleEffect(layer, f)>>]
    [] OTHER -> [ok |-> TRUE, v |-> <<ShapePlaceholder(layer)>>]

\* LayerRenderer: switch (layer.type); default: return null
LayerRenderer(layer, f) ==
  CASE layer.type = "text" -> AnimatedText(layer, f)
    [] layer.type = "image" -> AnimatedImage(layer, f)
    [] layer.type = "particles" -> [ok |-> TRUE, v |-> <<ParticleEffect(layer, f)>>]
    [] layer.type = "shape" -> [ok |-> TRUE, v |-> <<ShapePlaceholder(layer)>>]
    [] OTHER -> [ok |-> TRUE, v |-> <<>>]

----------------------------------------------------------------------------
(* Scenes: helpers.ts, SceneRenderer.tsx, MotionEngine.tsx                 *)

\* a scene of the document; every field is optional
Scene(startFrame, duration, background, layers) ==
  [startFrame |-> startFrame, duration |-> duration, background |-> background,
   layers |-> layers]

\* a gradient without the || "#000, #fff" fallback
renderBackgroundStyleNoFallback(bg) ==
  IF bg = None THEN [fill |-> "none", colors |-> <<>>]
  ELSE IF Get(bg).type = "solid"
       THEN [fill |-> "solid",
             colors |-> IF Get(bg).value = <<>> THEN <<"#000">> ELSE Get(bg).value]
  ELSE IF Get(bg).type = "gradient"
       THEN [fill |-> "gradient", colors |-> Get(bg).value]
  ELSE [fill |-> "none", colors |-> <<>>]

\* renderBackgroundStyle(bg): the CSS it returns, as the fill kind and the
\* colours; bg is absent or [type, value] with value a list of colours
renderBackgroundStyle(bg) ==
  IF bg = None THEN [fill |-> "none", colors |-> <<>>]
  ELSE IF Get(bg).type = "solid"
       THEN [fill |-> "solid",
             colors |-> IF Get(bg).value = <<>> THEN <<"#000">> ELSE Get(bg).value]
  ELSE IF Get(bg).type = "gradient"
       THEN [fill |-> "gradient",
             colors |-> IF Get(bg).value = <<>> THEN <<"#000", "#fff">>
                        ELSE Get(bg).value]
  ELSE [fill |-> "none", colors |-> <<>>]

DefaultFps == 30
DefaultSceneSeconds == 3

\* const fps = meta.fps || 30   (meta = dsl.meta || {fps: 30, ...}); fps is
\* a rational: a frame rate need not be an integer
MetaFps(meta) ==
  IF meta = None THEN RInt(DefaultFps)
  ELSE IF Get(meta).fps = None \/ Get(Get(meta).fps).n = 0 THEN RInt(DefaultFps)
  ELSE Get(Get(meta).fps)

\* Math.floor
Floor(r) == r.n \div r.d

\* Math.ceil
Ceil(r) == -((-r.n) \div r.d)

\* the default duration rounded up
SceneDurationCeil(scene, meta) ==
  IF scene.duration = None \/ Get(scene.duration) = 0
  THEN Ceil(RMul(RInt(DefaultSceneSeconds), MetaFps(meta)))
  ELSE Get(scene.duration)

\* const duration = scene.duration || Math.floor(3 * fps)
SceneDuration(scene, meta) ==
  IF scene.duration = None \/ Get(scene.duration) = 0
  THEN Floor(RMul(RInt(DefaultSceneSeconds), MetaFps(meta)))
  ELSE Get(scene.duration)

\* every scene placed at frame 0, its startFrame not read
SceneFromFrameIgnored(scene) == 0

\* const fromFrame = scene.startFrame ?? 0
SceneFromFrame(scene) == OrElse(scene.startFrame, 0)

\* a window that is closed at its end
SequenceClosedEnd(from, durationInFrames, f) ==
  IF durationInFrames <= 0 THEN [ok |-> FALSE, active |-> FALSE, local |-> 0]
  ELSE [ok |-> TRUE,
        active |-> ~(f < from) /\ ~(f > from + durationInFrames),
        local |-> f - from]

\* a Sequence that never ends
SequenceOpenEnded(from, durationInFrames, f) ==
  IF durationInFrames <= 0 THEN [ok |-> FALSE, active |-> FALSE, local |-> 0]
  ELSE [ok |-> TRUE, active |-> ~(f < from), local |-> f - from]

\* a Sequence that hands its children the absolute frame
SequenceAbsoluteFrame(from, durationInFrames, f) ==
  IF durationInFrames <= 0 THEN [ok |-> FALSE, active |-> FALSE, local |-> 0]
  ELSE [ok |-> TRUE,
        active |-> ~(f < from) /\ ~(f > from + durationInFrames - 1),
        local |-> f]

\* remotion: <Sequence from durationInFrames> at absolute frame f: throws
\* on a duration that is not positive, shows its children on
\* from .. from + durationInFrames - 1, and hands them the frame f - from
Sequence(from, durationInFrames, f) ==
  IF durationInFrames <= 0 THEN [ok |-> FALSE, active |-> FALSE, local |-> 0]
  ELSE [ok |-> TRUE,
        active |-> ~(f < from) /\ ~(f > from + durationInFrames - 1),
        local |-> f - from]

\* scene.layers?.map(layer => <LayerRenderer .../>): the elements in the
\* order of the layers, or the exception of a layer that throws
RECURSIVE RenderLayers(_, _)
RenderLayers(layers, f) ==
  IF layers = <<>> THEN [ok |-> TRUE, v |-> <<>>]
  ELSE LET first == LayerRenderer(Head(layers), f)
           rest == RenderLayers(Tail(layers), f)
       IN [ok |-> first.ok /\ rest.ok, v |-> first.v \o rest.v]

\* SceneRenderer at absolute frame f: nothing outside the Sequence, inside
\* it the background and the layers evaluated at the Sequence's frame
SceneRenderer(scene, meta, sceneIndex, f) ==
  LET seq == Sequence(SceneFromFrame(scene), SceneDuration(scene, meta), f)
      layers == RenderLayers(OrElse(scene.layers, <<>>), seq.local)
  IN IF ~seq.ok THEN [ok |-> FALSE, v |-> <<>>]
     ELSE IF ~seq.active THEN [ok |-> TRUE, v |-> <<>>]
     ELSE IF ~layers.ok THEN [ok |-> FALSE, v |-> <<>>]
     ELSE [ok |-> TRUE,
           v |-> <<[scene |-> sceneIndex,
                    background |-> renderBackgroundStyle(scene.background),
                    layers |-> layers.v]>>]

\* scenes.map((scene, idx) => <SceneRenderer .../>) from index idx on
RECURSIVE RenderScenes(_, _, _, _)
RenderScenes(scenes, meta, idx, f) ==
  IF idx > Len(scenes) THEN [ok |-> TRUE, v |-> <<>>]
  ELSE LET first == SceneRenderer(scenes[idx], meta, idx, f)
           rest == RenderScenes(scenes, meta, idx + 1, f)
       IN [ok |-> first.ok /\ rest.ok, v |-> first.v \o rest.v]

\* a document: meta (absent or [fps]) and scenes (absent or a list)
Document(meta, scenes) == [meta |-> meta, scenes |-> scenes]

\* the scenes painted last-declared first
MotionEngineReversed(doc, f) ==
  LET r == RenderScenes(OrElse(doc.scenes, <<>>), doc.meta, 1, f)
  IN IF r.ok
     THEN [ok |-> TRUE, v |-> [k \in 1..Len(r.v) |-> r.v[Len(r.v) + 1 - k]]]
     ELSE [ok |-> FALSE, v |-> <<>>]

\* MotionEngine at absolute frame f: the scene frames in paint order
MotionEngine(doc, f) ==
  LET r == RenderScenes(OrElse(doc.scenes, <<>>), doc.meta, 1, f)
  IN IF r.ok THEN r ELSE [ok |-> FALSE, v |-> <<>>]

----------------------------------------------------------------------------
(* The composition: index.tsx, scripts/render.js *)

\* <Composition id="Main" fps={30} durationInFrames={30 * 5} .../>
DurationInFrames == 30 * 5

\* renderMedia({composition: "Main", inputProps: {config}}): the frames
\* 0 .. durationInFrames - 1 of the composition, each MainVideo(config) at
\* that frame; an exception in a component ends the render
RenderFrame ==
  /\ pc = "rendering"
  /\ frame < DurationInFrames
  /\ LET r == MotionEngine(dsl, frame)
     IN IF r.ok
        THEN /\ painted' = r.v
             /\ frame' = frame + 1
             /\ pc' = pc
        ELSE /\ pc' = "failed"
             /\ UNCHANGED <<painted, frame>>
  /\ UNCHANGED appVars
  /\ UNCHANGED dsl

\* every frame of the composition is rendered: the video is written
Finish ==
  /\ pc = "rendering"
  /\ frame = DurationInFrames
  /\ pc' = "done"
  /\ UNCHANGED <<dsl, frame, painted>>
  /\ UNCHANGED appVars

Next == RenderFrame \/ Finish

----------------------------------------------------------------------------
(* The frontend: api.ts (ApiService), App.tsx, JobStatus.tsx,              *)
(* PromptForm.tsx, VideoDownload.tsx.  A handler runs to its next await in *)
(* one step; the response to a request is a later step.  net holds the     *)
(* requests in flight, backend the jobs of the server.                     *)

MaxJobs == 2
MaxInFlight == 2
MaxPollCount == 3
MaxPolls == 13
ProgressSample == 40

\* ApiService.getHeaders: X-API-Key only when a key is set
getHeaders(key) == IF key # "" THEN Some(key) ELSE None

\* a text by its lengths: leading white space, the part from the first to
\* the last character that is not white space, trailing white space
Text(lead, body, trail) == [lead |-> lead, body |-> body, trail |-> trail]
Length(text) == text.lead + text.body + text.trail
\* String.prototype.trim
trim(text) == Text(0, text.body, 0)

\* a request handed to fetch with the headers of that moment; live as long
\* as the component that awaits it stays mounted (React drops the state
\* updates of an unmounted component)
Request(kind, job, key, prompt) ==
  [kind |-> kind, job |-> job, headers |-> getHeaders(key), prompt |-> prompt,
   live |-> TRUE]

\* the JobStatus the backend answers for job j
JobStatusType(j, progress) ==
  [job_id |-> j, status |-> backend[j].status, progress |-> progress,
   output_path |-> backend[j].output_path]

\* the state of App and of the components it shows
App(view, job, completed, err) ==
  [appState |-> view, currentJob |-> job, completedJob |-> completed, error |-> err]
AppNow == App(appState, currentJob, completedJob, error)
JobStatusNow == [status |-> status, isPolling |-> isPolling, pollCount |-> pollCount]
PromptFormNow == [isSubmitting |-> isSubmitting, error |-> formError]
VideoDownloadNow == [isDownloading |-> isDownloading, downloadError |-> downloadError]

\* App.tsx: which component the view renders
JobStatusShown(app) == app.appState = "status" /\ app.currentJob # None
PromptFormShown(app) == app.appState = "create"
VideoDownloadShown(app) == app.appState = "download" /\ app.completedJob # None

\* what the last handler did: the request it sent, the callback of App it
\* invoked, the prompt it read, the view it started from
Did(name, sent, called, prompt) ==
  [name |-> name, from |-> appState, sent |-> sent, called |-> called,
   prompt |-> prompt]

Called(callback, j) == [callback |-> callback, job |-> j]

\* the status requests ever answered "completed" / with a terminal status,
\* and how often onComplete / onError were invoked, by job
NothingSeen ==
  [completed |-> {}, terminal |-> {},
   onComplete |-> [j \in 1..MaxJobs |-> 0], onError |-> [j \in 1..MaxJobs |-> 0]]

\* a component that is unmounted by the commit leaves its requests behind
Orphaned(requests, app) ==
  [i \in DOMAIN requests |->
     LET r == requests[i]
     IN IF \/ r.kind = "status" /\ ~(JobStatusShown(AppNow) /\ JobStatusShown(app))
           \/ r.kind = "render" /\ ~(PromptFormShown(AppNow) /\ PromptFormShown(app))
           \/ r.kind = "download"
                /\ ~(VideoDownloadShown(AppNow) /\ VideoDownloadShown(app))
        THEN [r EXCEPT !.live = FALSE]
        ELSE r]

Min(a, b) == IF a < b THEN a ELSE b
Max(a, b) == IF a > b THEN a ELSE b

\* the API progress passed on as it is
getProgressPercentageUnclamped(st, polls) ==
  IF st = None THEN 0
  ELSE IF Get(st).progress # None /\ Get(Get(st).progress) >= 0
       THEN Get(Get(st).progress)
  ELSE CASE Get(st).status = "pending" -> 10
         [] Get(st).status = "processing" -> Min(90, 30 + (polls * 5))
         [] Get(st).status = "completed" -> 100
         [] Get(st).status = "failed" -> 0
         [] OTHER -> 0

\* JobStatus.getProgressPercentage
getProgressPercentage(st, polls) ==
  IF st = None THEN 0
  ELSE IF Get(st).progress # None /\ Get(Get(st).progress) >= 0
       THEN Min(100, Max(0, Get(Get(st).progress)))
  ELSE CASE Get(st).status = "pending" -> 10
         [] Get(st).status = "processing" -> Min(90, 30 + (polls * 5))
         [] Get(st).status = "completed" -> 100
         [] Get(st).status = "failed" -> 0
         [] OTHER -> 0

\* React commits the state a handler has set.  App re-renders when its state
\* changed; its handlers are new functions on every render, so the effect of
\* a mounted JobStatus (deps [job.job_id, onComplete, onError]) runs again:
\* interval cleared and set, pollStatus() called at once.  A component that
\* mounts starts from its useState defaults; JobStatus polls on mount.
Commit(did, key, app, js, pf, vd, requests, sn) ==
  LET changed == app # AppNow
      poll == JobStatusShown(app) /\ (~JobStatusShown(AppNow) \/ changed)
      pollStatus == Request("status", Get(app.currentJob).job_id, key, None)
      keptJob == JobStatusShown(AppNow) /\ JobStatusShown(app)
      keptForm == PromptFormShown(AppNow) /\ PromptFormShown(app)
      keptDownload == VideoDownloadShown(AppNow) /\ VideoDownloadShown(app)
  IN /\ apiKey' = key
     /\ appState' = app.appState
     /\ currentJob' = app.currentJob
     /\ completedJob' = app.completedJob
     /\ error' = app.error
     /\ status' = IF keptJob THEN js.status ELSE None
     /\ isPolling' = IF keptJob THEN js.isPolling ELSE TRUE
     /\ pollCount' = IF keptJob THEN js.pollCount ELSE 0
     /\ isSubmitting' = IF keptForm THEN pf.isSubmitting ELSE FALSE
     /\ formError' = IF keptForm THEN pf.error ELSE ""
     /\ isDownloading' = IF keptDownload THEN vd.isDownloading ELSE FALSE
     /\ downloadError' = IF keptDownload THEN vd.downloadError ELSE ""
     /\ progressPercentage' = IF JobStatusShown(app)
                              THEN getProgressPercentage(status', pollCount')
                              ELSE 0
     /\ net' = IF poll THEN Append(Orphaned(requests, app), pollStatus)
               ELSE Orphaned(requests, app)
     /\ last' = IF poll THEN [did EXCEPT !.sent = Some(pollStatus)] ELSE did
     /\ seen' = sn
     /\ UNCHANGED engineVars

\* the requests in flight without the one at i
Answered(i) == SubSeq(net, 1, i - 1) \o SubSeq(net, i + 1, Len(net))

InFlight(kind) == { i \in DOMAIN net : net[i].kind = kind }

\* AuthForm: the key is handed to ApiService.validateApiKey, which sets it
\* and asks for the status of the job "test"
SubmitKey(key) ==
  /\ appState = "auth"
  /\ InFlight("validate") = {}
  /\ Len(net) < MaxInFlight
  /\ LET r == Request("validate", 0, key, None)
     IN Commit(Did("validateApiKey", Some(r), None, None), key, AppNow,
               JobStatusNow, PromptFormNow, VideoDownloadNow, Append(net, r), seen)
  /\ UNCHANGED backend

\* validateApiKey after the await: true, and AuthForm calls onAuthenticated
\* (handleAuthenticated); or the request threw and the key is cleared
ValidateResponse(i, ok) ==
  /\ i \in InFlight("validate")
  /\ IF ok
     THEN Commit(Did("handleAuthenticated", None, None, None), apiKey,
                 [AppNow EXCEPT !.appState = "create"],
                 JobStatusNow, PromptFormNow, VideoDownloadNow, Answered(i), seen)
     ELSE Commit(Did("validateApiKey catch", None, None, None), "", AppNow,
                 JobStatusNow, PromptFormNow, VideoDownloadNow, Answered(i), seen)
  /\ UNCHANGED backend

MinPromptLength == 3
MaxPromptLength == 1000

\* the length test on the text as typed
validatePromptUntrimmed(text) ==
  IF Length(text) = 0 THEN Some("Prompt cannot be empty")
  ELSE IF Length(text) < MinPromptLength
       THEN Some("Prompt must be at least 3 characters long")
  ELSE IF Length(text) > MaxPromptLength
       THEN Some("Prompt must be less than 1000 characters")
  ELSE None

\* PromptForm.validatePrompt
validatePrompt(text) ==
  LET trimmed == trim(text)
  IN IF Length(trimmed) = 0 THEN Some("Prompt cannot be empty")
     ELSE IF Length(trimmed) < MinPromptLength
          THEN Some("Prompt must be at least 3 characters long")
     ELSE IF Length(trimmed) > MaxPromptLength
          THEN Some("Prompt must be less than 1000 characters")
     ELSE None

\* the first template of the section "text-only":
\* 'Create a video with the text "{text}" that fades in smoothly'
TemplatePrefixLength == 30
TemplateSuffixLength == 24

\* PromptForm.getCurrentPrompt: the text itself in the section "custom",
\* otherwise the template with {text} replaced
getCurrentPrompt(selectedSection, customPrompt) ==
  IF selectedSection = "custom" THEN customPrompt
  ELSE Text(0, TemplatePrefixLength + Length(customPrompt) + TemplateSuffixLength, 0)

\* PromptForm.handleSubmit up to the await of startRender
handleSubmit(selectedSection, customPrompt) ==
  /\ PromptFormShown(AppNow)
  /\ ~isSubmitting
  /\ Len(net) < MaxInFlight
  /\ Len(backend) + Cardinality(InFlight("render")) < MaxJobs
  /\ LET currentPrompt == getCurrentPrompt(selectedSection, customPrompt)
         validationError == validatePrompt(currentPrompt)
         r == Request("render", 0, apiKey, Some(trim(currentPrompt)))
     IN IF validationError # None
        THEN Commit(Did("handleSubmit", None, None, Some(currentPrompt)), apiKey, AppNow,
                    JobStatusNow,
                    [isSubmitting |-> FALSE, error |-> Get(validationError)],
                    VideoDownloadNow, net, seen)
        ELSE Commit(Did("handleSubmit", Some(r), None, Some(currentPrompt)), apiKey,
                    AppNow, JobStatusNow,
                    [isSubmitting |-> TRUE, error |-> ""],
                    VideoDownloadNow, Append(net, r), seen)
  /\ UNCHANGED backend

\* handleSubmit after the await: the backend has created the job and
\* onJobStarted (handleJobStarted) shows its status, or startRender threw;
\* finally isSubmitting is false
RenderResponse(i, ok) ==
  /\ i \in InFlight("render")
  /\ LET j == Len(backend) + 1
         pf == IF net[i].live
               THEN [isSubmitting |-> FALSE,
                     error |-> IF ok THEN formError ELSE "Network error"]
               ELSE PromptFormNow
     IN IF ok
        THEN /\ backend' = Append(backend, [status |-> "pending", output_path |-> None])
             /\ Commit(Did("handleJobStarted", None, Some(Called("onJobStarted", j)), None),
                       apiKey,
                       [AppNow EXCEPT !.currentJob = Some([job_id |-> j]),
                                      !.appState = "status", !.error = ""],
                       JobStatusNow, pf, VideoDownloadNow, Answered(i), seen)
        ELSE /\ backend' = backend
             /\ Commit(Did("handleSubmit catch", None, None, None), apiKey, AppNow,
                       JobStatusNow, pf, VideoDownloadNow, Answered(i), seen)

\* JobStatus: setInterval(pollStatus, 3000) fires; pollStatus up to its await.
\* No poll is sent that could count beyond MaxPollCount.
Tick ==
  /\ JobStatusShown(AppNow)
  /\ Len(net) < MaxInFlight
  /\ pollCount + Cardinality({ i \in InFlight("status") : net[i].live }) < MaxPollCount
  /\ LET r == Request("status", Get(currentJob).job_id, apiKey, None)
     IN Commit(Did("setInterval", Some(r), None, None), apiKey, AppNow,
               JobStatusNow, PromptFormNow, VideoDownloadNow, Append(net, r), seen)
  /\ UNCHANGED backend

IsTerminal(s) == s \in {"completed", "failed"}

\* pollStatus after the await: the request threw (network error, response
\* not OK) and is only logged, or the status is set and a completed or
\* failed job is reported to App (handleJobComplete, handleJobError)
StatusResponse(i, ok, progress) ==
  /\ i \in InFlight("status")
  /\ LET j == net[i].job
         jobStatus == JobStatusType(j, progress)
         js == IF net[i].live
               THEN [status |-> Some(jobStatus),
                     isPolling |-> isPolling /\ ~IsTerminal(jobStatus.status),
                     pollCount |-> pollCount + 1]
               ELSE JobStatusNow
     IN IF ~ok
        THEN Commit(Did("pollStatus catch", None, None, None), apiKey, AppNow,
                    JobStatusNow, PromptFormNow, VideoDownloadNow, Answered(i), seen)
        ELSE IF jobStatus.status = "completed"
                THEN Commit(Did("pollStatus", None, Some(Called("onComplete", j)), None),
                            apiKey,
                            [AppNow EXCEPT !.completedJob = Some(jobStatus),
                                           !.appState = "download"],
                            js, PromptFormNow, VideoDownloadNow, Answered(i),
                            [seen EXCEPT !.completed = @ \cup {j},
                                         !.terminal = @ \cup {j},
                                         !.onComplete[j] = @ + 1])
                ELSE IF jobStatus.status = "failed"
                THEN Commit(Did("pollStatus", None, Some(Called("onError", j)), None),
                            apiKey, [AppNow EXCEPT !.error = "Job failed"],
                            js, PromptFormNow, VideoDownloadNow, Answered(i),
                            [seen EXCEPT !.terminal = @ \cup {j},
                                         !.onError[j] = @ + 1])
                ELSE Commit(Did("pollStatus", None, None, None), apiKey, AppNow,
                            js, PromptFormNow, VideoDownloadNow, Answered(i), seen)
  /\ UNCHANGED backend

\* a download that does not look at output_path
handleDownloadUnguarded ==
  /\ VideoDownloadShown(AppNow)
  /\ ~isDownloading
  /\ Len(net) < MaxInFlight
  /\ LET r == Request("download", Get(completedJob).job_id, apiKey, None)
     IN Commit(Did("handleDownload", Some(r), None, None), apiKey, AppNow,
               JobStatusNow, PromptFormNow,
               [isDownloading |-> TRUE, downloadError |-> ""],
               Append(net, r), seen)
  /\ UNCHANGED backend

\* VideoDownload.handleDownload up to the await of downloadVideo
handleDownload ==
  /\ VideoDownloadShown(AppNow)
  /\ ~isDownloading
  /\ Len(net) < MaxInFlight
  /\ LET jobStatus == Get(completedJob)
         r == Request("download", jobStatus.job_id, apiKey, None)
     IN IF jobStatus.output_path = None
        THEN Commit(Did("handleDownload", None, None, None), apiKey, AppNow,
                    JobStatusNow, PromptFormNow,
                    [isDownloading |-> FALSE, downloadError |-> "No video file available"],
                    net, seen)
        ELSE Commit(Did("handleDownload", Some(r), None, None), apiKey, AppNow,
                    JobStatusNow, PromptFormNow,
                    [isDownloading |-> TRUE, downloadError |-> ""],
                    Append(net, r), seen)
  /\ UNCHANGED backend

\* handleDownload after the await: the file is saved or the error is shown
DownloadResponse(i, ok) ==
  /\ i \in InFlight("download")
  /\ Commit(Did("handleDownload finally", None, None, None), apiKey, AppNow,
            JobStatusNow, PromptFormNow,
            IF net[i].live
            THEN [isDownloading |-> FALSE,
                  downloadError |-> IF ok THEN "" ELSE "Download failed"]
            ELSE VideoDownloadNow,
            Answered(i), seen)
  /\ UNCHANGED backend

\* App.handleLogout (the header's button, shown outside the auth view)
handleLogout ==
  /\ appState # "auth"
  /\ Commit(Did("handleLogout", None, None, None), "", App("auth", None, None, ""),
            JobStatusNow, PromptFormNow, VideoDownloadNow, net, seen)
  /\ UNCHANGED backend

\* App.handleCreateAnother: "Create Another Video" of the download view and
\* "Try Again" of the status view's error box
handleCreateAnother ==
  /\ VideoDownloadShown(AppNow) \/ (JobStatusShown(AppNow) /\ error # "")
  /\ Commit(Did("handleCreateAnother", None, None, None), apiKey,
            App("create", None, None, ""),
            JobStatusNow, PromptFormNow, VideoDownloadNow, net, seen)
  /\ UNCHANGED backend

\* the backend works on job j: pending, processing, then completed (with or
\* without an output file) or failed; a pending job may be cancelled
BackendStep(j) ==
  /\ j \in DOMAIN backend
  /\ \/ /\ backend[j].status = "pending"
        /\ \E s \in {"processing", "cancelled"} :
             backend' = [backend EXCEPT ![j].status = s]
     \/ /\ backend[j].status = "processing"
        /\ \/ \E path \in {None, Some("out.mp4")} :
                backend' = [backend EXCEPT ![j] = [status |-> "completed",
                                                   output_path |-> path]]
           \/ backend' = [backend EXCEPT ![j].status = "failed"]
  /\ UNCHANGED <<engineVars, apiKey, appState, currentJob, completedJob, error,
                 status, isPolling, pollCount, isSubmitting, formError,
                 isDownloading, downloadError, progressPercentage, net, last, seen>>

Keys == {"key-1"}
ProgressSamples == {None, Some(-1), Some(ProgressSample), Some(100 + ProgressSample)}
PromptSamples ==
  { Text(0, 0, 0), Text(2, 0, 0), Text(1, MinPromptLength - 1, 0),
    Text(1, MinPromptLength, 1), Text(0, MaxPromptLength, 1),
    Text(1, MaxPromptLength + 1, 0) }
Sections == {"text-only", "custom"}

\* the answers to the polls of one job
NextProgress ==
  \E i \in DOMAIN net, ok \in BOOLEAN, progress \in ProgressSamples :
    StatusResponse(i, ok, progress)

NextApp ==
  \/ \E key \in Keys : SubmitKey(key)
  \/ \E i \in DOMAIN net, ok \in BOOLEAN : ValidateResponse(i, ok)
  \/ \E section \in Sections, text \in PromptSamples : handleSubmit(section, text)
  \/ \E i \in DOMAIN net, ok \in BOOLEAN : RenderResponse(i, ok)
  \/ Tick
  \/ \E i \in DOMAIN net, ok \in BOOLEAN :
       StatusResponse(i, ok, Some(ProgressSample))
  \/ handleDownload
  \/ \E i \in DOMAIN net, ok \in BOOLEAN : DownloadResponse(i, ok)
  \/ handleLogout
  \/ handleCreateAnother
  \/ \E j \in 1..MaxJobs : BackendStep(j)

\* App after its mount effect: the create view with the key of localStorage
\* when one was saved, the auth view otherwise
AppStart(savedApiKey) ==
  /\ apiKey = savedApiKey
  /\ appState = IF savedApiKey # "" THEN "create" ELSE "auth"
  /\ currentJob = None /\ completedJob = None /\ error = ""
  /\ status = None /\ isPolling = TRUE /\ pollCount = 0
  /\ isSubmitting = FALSE /\ formError = ""
  /\ isDownloading = FALSE /\ downloadError = ""
  /\ progressPercentage = 0
  /\ net = <<>> /\ backend = <<>>
  /\ last = [name |-> "useEffect", from |-> "auth", sent |-> None, called |-> None,
             prompt |-> None]
  /\ seen = NothingSeen

----------------------------------------------------------------------------
(* Input documents *)

MaxScenes == 2
SceneStartSample == 45
SceneDurationSample == 60
FpsSample == 24
AnimStartSample == 10
AnimDurationSample == 30
StyleScaleSample == 2
SpeedSample == 2
PositionXSample == 120
PositionYSample == 40

TextFade == Layer("title", "text", None, Some(InSpec("fade", "linear", None, None)))
ImageSlide ==
  Layer("photo", "image", Some(StyleScaleSample),
        Some(InSpec("slide-up", "linear", Some(AnimStartSample), None)))
UnknownLayer == Layer("holo", "hologram", None, None)
ShapeLayer == Layer("box", "shape", None, None)
ParticlesLayer == Layer("stars", "particles", None, None)

LayerLists ==
  { <<TextFade, UnknownLayer, ShapeLayer>>,
    <<UnknownLayer, ParticlesLayer, ImageSlide>> }

BackgroundOf(layers) ==
  IF layers[1].type = "text" THEN Some([type |-> "solid", value |-> <<>>])
  ELSE Some([type |-> "gradient", value |-> <<"#123", "#456">>])

\* a scene with nothing but defaults, and scenes with layers
Scenes ==
  { Scene(None, None, None, None) } \cup
  { Scene(s, d, BackgroundOf(l), Some(l)) :
      s \in {None, Some(SceneStartSample)},
      d \in {None, Some(SceneDurationSample)},
      l \in LayerLists }

SceneLists == UNION { [1..n -> Scenes] : n \in 0..MaxScenes }

Metas == {None, Some([fps |-> Some(RInt(FpsSample))])}

Documents ==
  { Document(m, Some(ss)) : m \in Metas, ss \in SceneLists }
    \cup { Document(None, None) }

\* one layer in one scene with defaults, for the layer components
AnimTypes == {"zoom-in", "fade", "fade-up", "slide-up"}
Easings == {"linear", "spring"}
AnimStarts == {None, Some(AnimStartSample), Some(-AnimStartSample)}
AnimDurations == {None, Some(AnimDurationSample), Some(0), Some(-AnimDurationSample)}

InSpecs ==
  {None} \cup
  { Some(InSpec(t, e, s, d)) :
      t \in AnimTypes, e \in Easings, s \in AnimStarts, d \in AnimDurations }

LayerInputs ==
  { Layer("solo", t, sc, in) :
      t \in {"text", "image"}, sc \in {None, Some(StyleScaleSample)}, in \in InSpecs }

\* a text layer without content and an image layer without url or src
PayloadlessInputs ==
  { [Layer("solo", t, None, in) EXCEPT !.content = None, !.src = None] :
      t \in {"text", "image"}, in \in {None, Some(InSpec("fade", "linear", None, None))} }

\* two particles layers side by side, the second one with a speed
Densities == {None, Some("low"), Some("medium"), Some("high")}
Presets == {None, Some("snow")}
ParticleInputs ==
  { << [Layer("solo", "particles", None, None)
          EXCEPT !.preset = p, !.density = d],
       [Layer("twin", "particles", None, None)
          EXCEPT !.preset = p, !.density = e, !.speed = Some(SpeedSample)] >> :
      p \in Presets, d \in Densities, e \in Densities }

\* text and image layers by position: absent, "center", explicit
Positions == {None, Some(Center), Some(At(PositionXSample, PositionYSample))}
PositionInputs ==
  { [Layer("solo", t, None, None) EXCEPT !.position = pos] :
      t \in {"text", "image"}, pos \in Positions }

LayerDocuments ==
  { Document(None, Some(<<Scene(None, None, None, Some(ls))>>)) :
      ls \in { <<l>> : l \in LayerInputs \cup PayloadlessInputs \cup PositionInputs }
              \cup ParticleInputs }

\* one scene without layers, for the scene's own fields: meta and fps absent
\* or given (an integer and a fractional frame rate), startFrame and duration
\* absent or given, and every variant of the background
SceneMetas ==
  { None, Some([fps |-> None]), Some([fps |-> Some(RInt(FpsSample))]),
    Some([fps |-> Some(Rat(2 * FpsSample + 1, 2))]) }

Backgrounds ==
  { None,
    Some([type |-> "solid", value |-> <<>>]),
    Some([type |-> "solid", value |-> <<"#123">>]),
    Some([type |-> "gradient", value |-> <<>>]),
    Some([type |-> "gradient", value |-> <<"#123", "#456", "#789">>]),
    Some([type |-> "video", value |-> <<"#123">>]) }

SceneDocuments ==
  { Document(m, Some(<<Scene(s, d, b, None)>>)) :
      m \in SceneMetas,
      s \in {None, Some(SceneStartSample)},
      d \in {None, Some(SceneDurationSample)},
      b \in Backgrounds }

\* the render script starts; the frontend is a page nobody uses
Start ==
  /\ frame = 0
  /\ painted = <<>>
  /\ pc = "rendering"
  /\ AppStart("")

\* the frontend is opened, with or without a saved key; no render script runs
InitApp ==
  /\ dsl = Document(None, None)
  /\ frame = 0
  /\ painted = <<>>
  /\ pc = "done"
  /\ \E savedApiKey \in Keys \cup {""} : AppStart(savedApiKey)

\* documents that exercise the timeline and the scene compositor
Init == dsl \in Documents /\ Start

\* documents that exercise one animated layer
InitLayer == dsl \in LayerDocuments /\ Start

\* documents that exercise the fields of one scene
InitScene == dsl \in SceneDocuments /\ Start

Spec == Init /\ [][Next]_vars
SpecScene == InitScene /\ [][Next]_vars
\* JobStatus shows job 1 after any number of polls, the next poll is in
\* flight, and the backend has the job in any of its states
BackendJobs ==
  { [status |-> s, output_path |-> None] :
      s \in {"pending", "processing", "failed", "cancelled"} }
  \cup { [status |-> "completed", output_path |-> path] : path \in {None, Some("out.mp4")} }

InitProgress ==
  /\ dsl = Document(None, None)
  /\ frame = 0
  /\ painted = <<>>
  /\ pc = "done"
  /\ apiKey \in Keys
  /\ appState = "status"
  /\ currentJob = Some([job_id |-> 1]) /\ completedJob = None /\ error = ""
  /\ status = None /\ isPolling = TRUE /\ pollCount \in 0..MaxPolls
  /\ isSubmitting = FALSE /\ formError = ""
  /\ isDownloading = FALSE /\ downloadError = ""
  /\ progressPercentage = 0
  /\ net = <<Request("status", 1, apiKey, None)>>
  /\ \E job \in BackendJobs : backend = <<job>>
  /\ last = [name |-> "setInterval", from |-> "status",
             sent |-> Some(Request("status", 1, apiKey, None)), called |-> None,
             prompt |-> None]
  /\ seen = NothingSeen

SpecLayer == InitLayer /\ [][Next]_vars
SpecApp == InitApp /\ [][NextApp]_vars

\* the interval keeps firing, every request is answered in the end, and
\* status requests do not fail for ever
Respond ==
  \E i \in DOMAIN net, ok \in BOOLEAN :
    \/ ValidateResponse(i, ok)
    \/ RenderResponse(i, ok)
    \/ StatusResponse(i, ok, Some(ProgressSample))
    \/ DownloadResponse(i, ok)
StatusOk == \E i \in DOMAIN net : StatusResponse(i, TRUE, Some(ProgressSample))
SpecAppFair ==
  SpecApp /\ WF_vars(Tick) /\ WF_vars(Respond) /\ SF_vars(StatusOk)
SpecProgress == InitProgress /\ [][NextProgress]_vars

----------------------------------------------------------------------------
(* What the properties read *)

\* painted is the output of frame Shown once a frame has been rendered
Rendered == frame > 0
Shown == frame - 1

DocScenes == OrElse(dsl.scenes, <<>>)
SceneLayers(i) == OrElse(DocScenes[i].layers, <<>>)
PaintedScenes == { painted[k].scene : k \in DOMAIN painted }
IsPainted(i) == i \in PaintedScenes

\* the frame the layers of scene i are evaluated at
LocalFrame(i) == Shown - SceneFromFrame(DocScenes[i])

LayerOf(i, id) ==
  LET ls == SceneLayers(i) IN ls[CHOOSE k \in DOMAIN ls : ls[k].id = id]
IndexOf(i, id) ==
  LET ls == SceneLayers(i) IN CHOOSE k \in DOMAIN ls : ls[k].id = id

\* the painted elements with the scene they belong to
PaintedElements ==
  UNION { { [scene |-> painted[k].scene, el |-> painted[k].layers[j]] :
              j \in DOMAIN painted[k].layers } : k \in DOMAIN painted }

\* the animations the components implement with a linear interpolation,
\* the property each drives and the resting values of that property
Interpolated(layer) ==
  /\ IsSome(layer.in)
  /\ \/ layer.type = "text" /\ Get(layer.in).type = "zoom-in"
        /\ Get(layer.in).easing = "linear"
     \/ layer.type = "text" /\ Get(layer.in).type \in {"fade", "fade-up"}
     \/ layer.type = "image" /\ Get(layer.in).type = "slide-up"

AnimatedValue(el, layer) ==
  CASE Get(layer.in).type = "zoom-in" -> el.scale
    [] Get(layer.in).type \in {"fade", "fade-up"} -> el.opacity
    [] OTHER -> el.translateY

FromValue(layer) ==
  CASE Get(layer.in).type = "zoom-in" -> Rat(7, 10)
    [] Get(layer.in).type \in {"fade", "fade-up"} -> RInt(0)
    [] OTHER -> RInt(50)

ToValue(layer) ==
  CASE Get(layer.in).type = "zoom-in" -> RInt(1)
    [] Get(layer.in).type \in {"fade", "fade-up"} -> RInt(1)
    [] OTHER -> RInt(0)

WellFormed(inSpec) ==
  /\ OrElse(inSpec.startFrame, 0) >= 0
  /\ OrElse(inSpec.duration, DefaultAnimDuration) > 0

----------------------------------------------------------------------------
(* Properties *)

\* C1: a text or image layer whose in-animation has startFrame s > 0 and
\* linear easing shows, at every scene-local frame f < s, exactly the
\* from-value of the animated property (opacity 0, scale 0.7, translateY 50),
\* and at every frame a value within [fromValue, toValue].
ClaimC1 ==
  Rendered =>
    \A p \in PaintedElements :
      LET layer == LayerOf(p.scene, p.el.id)
      IN (Interpolated(layer) /\ Get(layer.in).easing = "linear"
            /\ WellFormed(Get(layer.in)) /\ AnimStartFrame(Get(layer.in)) > 0)
         => /\ LocalFrame(p.scene) < AnimStartFrame(Get(layer.in))
                 => AnimatedValue(p.el, layer) = FromValue(layer)
            /\ RBetween(AnimatedValue(p.el, layer), FromValue(layer), ToValue(layer))

\* C5: a malformed animation spec (duration <= 0, negative startFrame) never
\* makes evaluation fail: the render goes on and the animated property has a
\* value within [fromValue, toValue] at every frame.
ClaimC5 ==
  \A i \in DOMAIN DocScenes : \A k \in DOMAIN SceneLayers(i) :
    LET layer == SceneLayers(i)[k]
    IN (Interpolated(layer) /\ ~WellFormed(Get(layer.in)))
       => /\ pc # "failed"
          /\ \A p \in PaintedElements :
               (Rendered /\ p.scene = i /\ p.el.id = layer.id)
               => RBetween(AnimatedValue(p.el, layer), FromValue(layer), ToValue(layer))

\* C9: for an animation with linear easing, at every frame
\* f >= startFrame + duration the animated property is exactly toValue
\* (opacity 1, scale 1, translateY 0), and at no frame is it beyond toValue.
InvC9 ==
  Rendered =>
    \A p \in PaintedElements :
      LET layer == LayerOf(p.scene, p.el.id)
          v == AnimatedValue(p.el, layer)
      IN (Interpolated(layer) /\ Get(layer.in).easing = "linear")
         => /\ LocalFrame(p.scene) >= AnimEndFrame(Get(layer.in)) => v = ToValue(layer)
            /\ IF RLe(FromValue(layer), ToValue(layer))
               THEN RLe(v, ToValue(layer)) ELSE RLe(ToValue(layer), v)

\* C9 witness: a fade that starts at AnimStartSample and lasts
\* AnimDurationSample frames, shown past its end with opacity 1
WitnessC9 ==
  /\ Rendered
  /\ \E p \in PaintedElements :
       LET layer == LayerOf(p.scene, p.el.id)
       IN /\ layer.type = "text" /\ IsSome(layer.in)
          /\ Get(layer.in) = InSpec("fade", "linear", Some(AnimStartSample),
                                    Some(AnimDurationSample))
          /\ LocalFrame(p.scene) > AnimStartSample + AnimDurationSample
          /\ p.el.opacity = RInt(1)

\* the scale factor the in-animation of a layer contributes at frame f: the
\* zoom-in of a text layer (spring or interpolated), 1 for anything else
AnimatedScaleFactor(layer, f) ==
  IF layer.type = "text" /\ Get(layer.in).type = "zoom-in"
  THEN IF Get(layer.in).easing = "spring" THEN spring(f)
       ELSE interpolate(f, AnimStartFrame(Get(layer.in)), AnimEndFrame(Get(layer.in)),
                        Rat(7, 10), RInt(1), "extend", "clamp").v
  ELSE RInt(1)

\* C10: on a layer with a zoom-in animation (linear or spring), and on an
\* image layer with any animation, the final scale is the product of the
\* layer's style scale and the animated scale factor: the animation never
\* overwrites the style scale.
ClaimC10 ==
  Rendered =>
    \A p \in PaintedElements :
      LET layer == LayerOf(p.scene, p.el.id)
      IN (/\ IsSome(layer.in)
          /\ \/ layer.type = "text" /\ Get(layer.in).type = "zoom-in"
             \/ layer.type = "image")
         => p.el.scale = RMul(RInt(OrElse(layer.scale, 1)),
                              AnimatedScaleFactor(layer, LocalFrame(p.scene)))

\* the active window of scene i as the renderer computes it
WindowStart(i) == SceneFromFrame(DocScenes[i])
WindowEnd(i) == WindowStart(i) + SceneDuration(DocScenes[i], dsl.meta)
InWindow(i, f) == WindowStart(i) <= f /\ f < WindowEnd(i)

\* the layout the timeline is specified to have: an explicit startFrame, or
\* frame 0 for the first scene, or the end of the scene before
RECURSIVE LayoutStart(_)
LayoutStart(i) ==
  IF IsSome(DocScenes[i].startFrame) THEN Get(DocScenes[i].startFrame)
  ELSE IF i = 1 THEN 0
  ELSE LayoutStart(i - 1) + SceneDuration(DocScenes[i - 1], dsl.meta)

\* C2: a scene without explicit startFrame is shown from the end of the scene
\* before it (the first one from frame 0) for its duration: default-placed
\* scenes are sequential and gap-free.
ClaimC2 ==
  Rendered =>
    \A i \in DOMAIN DocScenes :
      DocScenes[i].startFrame = None
      => (IsPainted(i) <=>
            /\ LayoutStart(i) <= Shown
            /\ Shown < LayoutStart(i) + SceneDuration(DocScenes[i], dsl.meta))

\* the largest end frame of the scenes of a document that has scenes
MaxEndFrame ==
  CHOOSE m \in { WindowEnd(i) : i \in DOMAIN DocScenes } :
         \A i \in DOMAIN DocScenes : WindowEnd(i) <= m

\* C3: the number of frames rendered for a document with scenes is the
\* maximum over its scenes of start frame + duration.
ClaimC3 == (pc = "done" /\ DocScenes # <<>>) => frame = MaxEndFrame

\* C4: at every rendered frame f a scene's background and layers are painted
\* if and only if startFrame <= f < startFrame + duration.
InvC4 ==
  Rendered =>
    \A i \in DOMAIN DocScenes :
      /\ IsPainted(i) <=> InWindow(i, Shown)
      /\ ~InWindow(i, Shown) => \A p \in PaintedElements : p.scene # i

\* C4 witness: the last frame of a scene that starts at SceneStartSample is
\* shown with that scene painted and a scene that ended earlier not painted
WitnessC4 ==
  /\ Rendered
  /\ \E i, j \in DOMAIN DocScenes :
       /\ WindowStart(i) = SceneStartSample /\ Shown = WindowEnd(i) - 1
       /\ IsPainted(i) /\ \E p \in PaintedElements : p.scene = i
       /\ WindowEnd(j) <= Shown /\ ~IsPainted(j)

\* C8: a scene with explicit startFrame s and duration d is painted exactly
\* at the frames s <= f < s + d, whatever the other scenes are.
InvC8 ==
  Rendered =>
    \A i \in DOMAIN DocScenes :
      (IsSome(DocScenes[i].startFrame) /\ IsSome(DocScenes[i].duration)
         /\ Get(DocScenes[i].duration) > 0)
      => (IsPainted(i) <=>
            /\ Get(DocScenes[i].startFrame) <= Shown
            /\ Shown < Get(DocScenes[i].startFrame) + Get(DocScenes[i].duration))

\* C8 witness: after a first scene of the default 90 frames, a second scene
\* with startFrame SceneStartSample and duration SceneDurationSample is
\* painted at its last frame, SceneStartSample + SceneDurationSample - 1
WitnessC8 ==
  /\ Rendered
  /\ Len(DocScenes) = 2
  /\ DocScenes[1].startFrame = None /\ DocScenes[1].duration = None
  /\ DocScenes[2].startFrame = Some(SceneStartSample)
  /\ DocScenes[2].duration = Some(SceneDurationSample)
  /\ Shown = SceneStartSample + SceneDurationSample - 1
  /\ IsPainted(2) /\ ~IsPainted(1)

\* the layer types LayerRenderer has a case for
KnownTypes == {"text", "image", "particles", "shape"}
IsKnown(layer) == layer.type \in KnownTypes

\* the document with every layer of unknown type taken out
StripScene(scene) ==
  [scene EXCEPT !.layers = IF @ = None THEN None ELSE Some(SelectSeq(Get(@), IsKnown))]
StripUnknown(doc) ==
  [doc EXCEPT !.scenes =
     IF @ = None THEN None ELSE Some([i \in DOMAIN Get(@) |-> StripScene(Get(@)[i])])]

\* C6: a layer of unknown type raises no error and resolves to nothing, every
\* other layer resolves as in the document without the unknown layers, and a
\* shape layer of a painted scene resolves to a placeholder element.
InvC6 ==
  /\ pc # "failed"
  /\ Rendered =>
       /\ painted = MotionEngine(StripUnknown(dsl), Shown).v
       /\ \A p \in PaintedElements : p.el.type \in KnownTypes
       /\ \A i \in PaintedScenes : \A k \in DOMAIN SceneLayers(i) :
            SceneLayers(i)[k].type = "shape"
            => \E p \in PaintedElements :
                 p.scene = i /\ p.el.id = SceneLayers(i)[k].id /\ p.el.type = "shape"

\* C6 witness: a painted scene that declares a layer of unknown type next to
\* a text and a shape layer, painted with those two and nothing else
WitnessC6 ==
  /\ Rendered
  /\ \E k \in DOMAIN painted :
       LET i == painted[k].scene
       IN /\ \E a \in DOMAIN SceneLayers(i) : ~IsKnown(SceneLayers(i)[a])
          /\ Len(SceneLayers(i)) = 3
          /\ Len(painted[k].layers) = 2
          /\ painted[k].layers[1].type = "text"
          /\ painted[k].layers[2].type = "shape"

\* C7: scenes whose windows overlap are all painted at the frames they share,
\* in declaration order (a later scene over an earlier one), and the elements
\* of a scene are painted in the order of the scene's layers.
InvC7 ==
  Rendered =>
    /\ \A i, j \in DOMAIN DocScenes :
         (i # j /\ InWindow(i, Shown) /\ InWindow(j, Shown))
         => IsPainted(i) /\ IsPainted(j)
    /\ \A k, l \in DOMAIN painted : k < l => painted[k].scene < painted[l].scene
    /\ \A k \in DOMAIN painted : \A a, b \in DOMAIN painted[k].layers :
         a < b => IndexOf(painted[k].scene, painted[k].layers[a].id)
                    < IndexOf(painted[k].scene, painted[k].layers[b].id)

\* C7 witness: a scene placed at SceneStartSample overlaps the scene declared
\* before it, and both are painted with two elements each, the earlier first
WitnessC7 ==
  /\ Rendered
  /\ Len(painted) = 2
  /\ painted[1].scene = 1 /\ painted[2].scene = 2
  /\ WindowStart(1) = 0 /\ WindowStart(2) = SceneStartSample
  /\ Len(painted[1].layers) = 2 /\ Len(painted[2].layers) = 2

\* C11: a spring zoom-in is evaluated at the frames elapsed since its own
\* startFrame: the scale is the style scale times the spring curve at
\* frame - startFrame, hence the resting value 0 at every frame <= startFrame
\* and the same curve shifted by k frames when startFrame is k later.
ClaimC11 ==
  Rendered =>
    \A p \in PaintedElements :
      LET layer == LayerOf(p.scene, p.el.id)
      IN (/\ layer.type = "text" /\ IsSome(layer.in)
          /\ Get(layer.in).type = "zoom-in" /\ Get(layer.in).easing = "spring"
          /\ WellFormed(Get(layer.in)))
         => p.el.scale =
              RMul(spring(LocalFrame(p.scene) - AnimStartFrame(Get(layer.in))),
                   RInt(OrElse(layer.scale, 1)))

\* scene i alone in the document, placed at frame 0
Rebased(i) ==
  [dsl EXCEPT !.scenes = Some(<<[DocScenes[i] EXCEPT !.startFrame = Some(0)]>>)]

\* C12: the layers of a scene are evaluated at the scene-local frame: a
\* painted scene shows, at absolute frame f, the layer states that the same
\* scene placed at frame 0 shows at frame f - startFrame.
InvC12 ==
  Rendered =>
    \A k \in DOMAIN painted :
      LET i == painted[k].scene
          alone == MotionEngine(Rebased(i), Shown - WindowStart(i))
      IN /\ alone.ok /\ Len(alone.v) = 1
         /\ painted[k].layers = alone.v[1].layers

\* C12 witness: a scene placed at SceneStartSample, five frames after its
\* start, with its fade at 5/20 and its particles where frame 5 puts them
WitnessC12 ==
  /\ Rendered
  /\ Shown = SceneStartSample + 5
  /\ \E p, q \in PaintedElements :
       /\ p.scene = q.scene /\ WindowStart(p.scene) = SceneStartSample
       /\ p.el.type = "text" /\ p.el.opacity = Rat(5, DefaultAnimDuration)
       /\ q.el.type = "shape"
  /\ \E p \in PaintedElements :
       /\ WindowStart(p.scene) = SceneStartSample
       /\ p.el.type = "particles" /\ p.el.dots[1].y = 5

\* a frame at or beyond the end of every scene's window
BeyondEveryScene(f) == \A i \in DOMAIN DocScenes : f >= WindowEnd(i)

\* C13: a frame that is negative, or at or beyond the end of every scene's
\* window, yields the empty result (no scene, no layer) and raises no error.
InvC13 ==
  /\ pc # "failed"
  /\ (Rendered /\ BeyondEveryScene(Shown)) => painted = <<>>
  /\ LET before == MotionEngine(dsl, -1 - frame)
     IN before.ok /\ before.v = <<>>

\* C13 witness: a document with scenes, shown at the first frame after the
\* end of its last scene, with nothing painted
WitnessC13 ==
  /\ Rendered
  /\ Len(DocScenes) = 2
  /\ BeyondEveryScene(Shown) /\ ~BeyondEveryScene(Shown - 1)
  /\ painted = <<>>

\* the document with every absent optional field of the timeline set to its
\* stated default: fps 30, no scenes, a scene placed at the end of the scene
\* before it, lasting 3 seconds, without layers
StatedFps ==
  IF dsl.meta = None THEN RInt(DefaultFps)
  ELSE OrElse(Get(dsl.meta).fps, RInt(DefaultFps))
WithStatedDefaults ==
  Document(Some([fps |-> Some(StatedFps)]),
           Some([i \in DOMAIN DocScenes |->
                   Scene(Some(LayoutStart(i)),
                         Some(OrElse(DocScenes[i].duration,
                                     Floor(RMul(RInt(DefaultSceneSeconds), StatedFps)))),
                         DocScenes[i].background,
                         Some(SceneLayers(i)))]))

StatedDuration(i) ==
  IF IsSome(DocScenes[i].duration) THEN Get(DocScenes[i].duration)
  ELSE (DefaultSceneSeconds * StatedFps.n) \div StatedFps.d

\* C15: the duration used for a scene's window is a positive integer: the
\* scene's own duration when given, otherwise 3 x fps rounded down, fps
\* defaulting to 30 (90 frames).
InvC15 ==
  Rendered =>
    \A i \in DOMAIN DocScenes :
      /\ StatedDuration(i) \in Nat \ {0}
      /\ IsPainted(i) <=>
           (WindowStart(i) <= Shown /\ Shown < WindowStart(i) + StatedDuration(i))
      /\ (DocScenes[i].duration = None /\ StatedFps = RInt(DefaultFps))
           => (IsPainted(i) <=> (WindowStart(i) <= Shown /\ Shown < WindowStart(i) + 90))

\* C15 witness: a scene without duration at a fractional frame rate, painted
\* at the last frame of a window of 3 x fps frames rounded down
WitnessC15 ==
  /\ Rendered
  /\ Len(DocScenes) = 1 /\ DocScenes[1].duration = None
  /\ StatedFps = Rat(2 * FpsSample + 1, 2)
  /\ Shown = WindowStart(1) + (3 * (2 * FpsSample + 1)) \div 2 - 1
  /\ IsPainted(1)

\* the fill a background is specified to give
StatedFill(bg) ==
  IF bg = None THEN [fill |-> "none", colors |-> <<>>]
  ELSE CASE Get(bg).type = "solid" ->
              [fill |-> "solid",
               colors |-> IF Len(Get(bg).value) = 0 THEN <<"#000">> ELSE Get(bg).value]
         [] Get(bg).type = "gradient" ->
              [fill |-> "gradient",
               colors |-> IF Len(Get(bg).value) = 0 THEN <<"#000", "#fff">>
                          ELSE Get(bg).value]
         [] OTHER -> [fill |-> "none", colors |-> <<>>]

\* C20: a solid background gives a flat fill of its colour, black when unset;
\* a gradient gives its colour stops in order, black-to-white when the stops
\* are missing or empty; an absent or unknown background gives no fill.
InvC20 ==
  Rendered =>
    \A k \in DOMAIN painted :
      painted[k].background = StatedFill(DocScenes[painted[k].scene].background)

\* C20 witness: a painted scene whose gradient has no stops, filled
\* black-to-white
WitnessC20 ==
  /\ Rendered
  /\ \E k \in DOMAIN painted :
       /\ DocScenes[painted[k].scene].background =
            Some([type |-> "gradient", value |-> <<>>])
       /\ painted[k].background = [fill |-> "gradient", colors |-> <<"#000", "#fff">>]

Payloadless(layer) ==
  \/ layer.type = "text" /\ layer.content = None
  \/ layer.type = "image" /\ layer.src = None

\* C16: a text layer without content and an image layer without url or src
\* never abort the frame and are painted with empty content.
ClaimC16 ==
  \A i \in DOMAIN DocScenes :
    \A j \in DOMAIN SceneLayers(i) :
      Payloadless(SceneLayers(i)[j]) =>
        /\ pc # "failed"
        /\ (Rendered /\ IsPainted(i)) =>
             \E p \in PaintedElements :
               /\ p.scene = i /\ p.el.id = SceneLayers(i)[j].id
               /\ p.el.content = ""

IsParticles(p) == p.el.type = "particles"

\* C18: a particles layer paints 20 dots at density low, 40 at medium, 80 at
\* high and 40 when the density is absent.
InvC18 ==
  Rendered =>
    \A p \in PaintedElements :
      IsParticles(p) =>
        LET density == LayerOf(p.scene, p.el.id).density
        IN /\ density = Some("low") => Len(p.el.dots) = 20
           /\ density = Some("medium") => Len(p.el.dots) = 40
           /\ density = Some("high") => Len(p.el.dots) = 80
           /\ density = None => Len(p.el.dots) = 40

\* C18 witness: side by side, a layer without density painted with 40 dots
\* and a layer of density high painted with 80
WitnessC18 ==
  /\ Rendered
  /\ \E p, q \in PaintedElements :
       /\ IsParticles(p) /\ IsParticles(q) /\ p.scene = q.scene
       /\ LayerOf(p.scene, p.el.id).density = None /\ Len(p.el.dots) = 40
       /\ LayerOf(q.scene, q.el.id).density = Some("high") /\ Len(q.el.dots) = 80

\* C19: the positions and sizes of the dots of a particles layer depend on
\* the preset, the density and the frame only: two layers of a scene with the
\* same preset and density are painted with the same dots, whatever else
\* (id, speed) tells them apart.
InvC19 ==
  Rendered =>
    \A p, q \in PaintedElements :
      LET a == LayerOf(p.scene, p.el.id)
          b == LayerOf(q.scene, q.el.id)
      IN (/\ IsParticles(p) /\ IsParticles(q) /\ p.scene = q.scene
          /\ a.preset = b.preset /\ a.density = b.density)
         => p.el.dots = q.el.dots

\* C19 witness: two layers of the same preset and density, one of them with
\* a speed, painted with the same dots after the dots have moved
WitnessC19 ==
  /\ Rendered /\ Shown = 7
  /\ \E p, q \in PaintedElements :
       LET a == LayerOf(p.scene, p.el.id)
           b == LayerOf(q.scene, q.el.id)
       IN /\ IsParticles(p) /\ IsParticles(q) /\ p.scene = q.scene
          /\ a.id # b.id /\ a.speed # b.speed
          /\ a.preset = Some("snow") /\ b.preset = Some("snow")
          /\ a.density = Some("low") /\ b.density = Some("low")
          /\ p.el.dots = q.el.dots /\ p.el.dots[1].y = 7

\* the place a position is specified to give, an absent one counting as
\* "center"
StatedPlace(position) ==
  IF position = None \/ Get(position).keyword = "center"
  THEN Place(Percent(50), Percent(50), TRUE)
  ELSE Place(Pixels(Get(position).x), Pixels(Get(position).y), FALSE)

\* C21: text and image layers place themselves by one rule: "center" at
\* 50% / 50% with the centering translation, {x, y} at x / y without it, and
\* no position as "center".
ClaimC21 ==
  Rendered =>
    \A p \in PaintedElements :
      p.el.type \in {"text", "image"} =>
        p.el.place = Some(StatedPlace(LayerOf(p.scene, p.el.id).position))

\* C22: a text or image layer without an in-animation is painted at every
\* frame with opacity 1, its style scale (1 when unset) and no offset.
ClaimC22 ==
  Rendered =>
    \A p \in PaintedElements :
      LET layer == LayerOf(p.scene, p.el.id)
      IN (p.el.type \in {"text", "image"} /\ layer.in = None) =>
           /\ p.el.opacity = RInt(1)
           /\ p.el.scale = RInt(OrElse(layer.scale, 1))
           /\ p.el.translateY = RInt(0)

----------------------------------------------------------------------------
(* The frontend's properties *)

\* C23: every request the frontend sends carries the X-API-Key header with
\* the key that is set at that moment, so none carries a key that was
\* cleared.
ClaimC23 ==
  last.sent # None =>
    /\ apiKey # ""
    /\ Get(last.sent).headers = Some(apiKey)

\* C24: a download request is sent for a job only after a status response
\* for that job said "completed"; the download view shows completed jobs
\* only; no download request is sent for a status without output_path.
InvC24 ==
  /\ \A i \in InFlight("download") : net[i].job \in seen.completed
  /\ VideoDownloadShown(AppNow) =>
       /\ Get(completedJob).status = "completed"
       /\ Get(completedJob).job_id \in seen.completed
  /\ (last.name = "handleDownload" /\ last.sent # None) =>
       /\ Get(last.sent).job = Get(completedJob).job_id
       /\ Get(completedJob).output_path # None
  /\ (last.name = "handleDownload" /\ Get(completedJob).output_path = None) =>
       last.sent = None

\* C24 witness: the download request of a completed job has been sent
WitnessC24 ==
  /\ last.name = "handleDownload" /\ last.sent # None
  /\ \E i \in InFlight("download") :
       /\ net[i].job = Get(completedJob).job_id
       /\ backend[net[i].job].status = "completed"

\* C25: a status response that arrives in the auth view (after a logout) or
\* in the create view (after Create Another / Try Again) leaves the view
\* where it is and completedJob null.
ClaimC25 ==
  (last.name \in {"pollStatus", "pollStatus catch"} /\ last.from \in {"auth", "create"}) =>
    /\ appState = last.from
    /\ completedJob = None

\* C26: once a poll has seen a job "completed" or "failed", the interval
\* sends no further status request for that job.
ClaimC26 ==
  (last.name = "setInterval" /\ last.sent # None) =>
    Get(last.sent).job \notin seen.terminal

\* C27: for one job onComplete is invoked at most once and onError at most
\* once.
ClaimC27 ==
  \A j \in 1..MaxJobs : seen.onComplete[j] <= 1 /\ seen.onError[j] <= 1

IsValidPrompt(text) ==
  LET n == text.body IN MinPromptLength <= n /\ n <= MaxPromptLength

\* C29: startRender is called only with a prompt of trimmed length 3..1000
\* and gets the trimmed prompt; a rejected prompt sends nothing and sets an
\* error; when no submission is pending isSubmitting is false; onJobStarted
\* is called only with the job of a successful response.
InvC29 ==
  /\ \A i \in InFlight("render") :
       LET sentPrompt == Get(net[i].prompt)
       IN /\ sentPrompt.lead = 0 /\ sentPrompt.trail = 0
          /\ 3 <= sentPrompt.body /\ sentPrompt.body <= 1000
  /\ last.name = "handleSubmit" =>
       IF IsValidPrompt(Get(last.prompt))
       THEN /\ last.sent # None
            /\ Get(last.sent).kind = "render"
            /\ Get(last.sent).prompt = Some(Text(0, Get(last.prompt).body, 0))
       ELSE /\ last.sent = None
            /\ formError # ""
            /\ ~isSubmitting
  /\ (PromptFormShown(AppNow) /\ \A i \in InFlight("render") : ~net[i].live) =>
       ~isSubmitting
  /\ (last.called # None /\ Get(last.called).callback = "onJobStarted") =>
       /\ last.name = "handleJobStarted"
       /\ Get(last.called).job \in DOMAIN backend

\* C29 witness: a prompt of three characters between white space has been
\* sent trimmed, and the form is submitting
WitnessC29 ==
  /\ last.name = "handleSubmit"
  /\ last.prompt = Some(Text(1, 3, 1))
  /\ isSubmitting
  /\ \E i \in InFlight("render") : net[i].prompt = Some(Text(0, 3, 0))

\* the percentage the component is specified to show
StatedPercentage(st, polls) ==
  IF st = None THEN 0
  ELSE LET s == Get(st)
       IN IF s.progress # None /\ Get(s.progress) >= 0
          THEN (IF Get(s.progress) > 100 THEN 100 ELSE Get(s.progress))
          ELSE IF s.status = "pending" THEN 10
          ELSE IF s.status = "processing"
               THEN (IF 30 + 5 * polls > 90 THEN 90 ELSE 30 + 5 * polls)
          ELSE IF s.status = "completed" THEN 100
          ELSE 0

\* C30: the percentage JobStatus shows is within 0..100: the API progress
\* clamped when it is defined and not negative, otherwise 10 for pending,
\* min(90, 30 + 5 * pollCount) for processing, 100 for completed, 0 for
\* failed or unknown, whatever the poll count.
InvC30 ==
  /\ 0 <= progressPercentage /\ progressPercentage <= 100
  /\ JobStatusShown(AppNow) => progressPercentage = StatedPercentage(status, pollCount)
  /\ \A j \in DOMAIN backend, progress \in ProgressSamples :
       LET st == Some(JobStatusType(j, progress))
           shown == getProgressPercentage(st, pollCount)
       IN 0 <= shown /\ shown <= 100 /\ shown = StatedPercentage(st, pollCount)

\* C30 witness: after the last of more than twelve polls a processing job
\* without progress is shown at 90
WitnessC30 ==
  /\ JobStatusShown(AppNow)
  /\ pollCount = MaxPolls + 1
  /\ status # None /\ Get(status).status = "processing" /\ Get(status).progress = None
  /\ progressPercentage = 90

\* the status view polls job j, which the backend has completed
Watching(j) ==
  /\ JobStatusShown(AppNow)
  /\ currentJob = Some([job_id |-> j])
  /\ j \in DOMAIN backend /\ backend[j].status = "completed"

Downloadable(j) ==
  VideoDownloadShown(AppNow) /\ Get(completedJob).job_id = j

\* C28: a status request that fails invokes neither onComplete nor onError
\* and leaves the view and the polling as they are; when the backend has
\* completed the job that is polled, the download view of that job is
\* reached, unless the user leaves for the auth or the create view (or the
\* poll count reaches MaxPollCount).
ClaimC28 ==
  /\ [](last.name = "pollStatus catch" =>
          /\ last.called = None /\ last.sent = None
          /\ appState = last.from)
  /\ \A j \in 1..MaxJobs :
       Watching(j) ~> \/ Downloadable(j)
                      \/ appState \in {"auth", "create"}
                      \/ pollCount >= MaxPollCount

====
